---- MODULE Spec2Model ----
(***************************************************************************)
(* Quiz Master: a Streamlit page (src/app.py) over a quiz generator and an *)
(* evaluator (src/backend.py).                                             *)
(*                                                                         *)
(* Streamlit executes the whole script once per user interaction ("run").  *)
(* Each action below is one interaction together with the complete run it  *)
(* triggers: the widget's on_click callback (if any), then the script from *)
(* top to bottom, then the end-of-run clean-up of the state of widgets     *)
(* that were not rendered.                                                 *)
(*                                                                         *)
(* Python values: a str is a sequence of one-character strings; None is    *)
(* the sentinel None, which is not a str; a dict is a function; a list is  *)
(* a sequence; values the code tests with isinstance carry a flag.         *)
(***************************************************************************)
EXTENDS Integers, Sequences, FiniteSets, TLC

VARIABLES
    pdf_file,       \* value of st.file_uploader (unkeyed widget state)
    n_per_level,    \* value of the "Questions per level" slider
    chunk_size,     \* value of the "Chunk size" slider
    chunk_overlap,  \* value of the "Chunk overlap" slider
    quiz_data,      \* st.session_state.quiz_data
    user_answers,   \* st.session_state.user_answers  (Answer Record)
    submitted_q,    \* st.session_state.submitted_q   (keys of the dict)
    results_cache,  \* st.session_state.results_cache
    material_info,  \* st.session_state.material_info
    radio,          \* st.session_state[key] of the radio widgets
    page,           \* what the last run rendered (controls the user can use)
    op,             \* the interaction handled by the last run and its outcome
    runs,           \* number of runs so far
    call            \* argument/result of a direct call of a backend function

vars == <<pdf_file, n_per_level, chunk_size, chunk_overlap, quiz_data,
          user_answers, submitted_q, results_cache, material_info, radio,
          page, op, runs, call>>

----------------------------------------------------------------------------
(* Bounds of the model *)

MaxN == 2          \* largest "questions per level" the slider offers here
MaxRuns == 5       \* interactions per session
MaxPick == 2       \* the user picks among the first MaxPick option letters
MaxChunks == 4     \* largest number of chunks the splitter returns
MaxLen == 5        \* longest model response text, in characters
StaleRuns == 3      \* interactions that follow a failed generate request

----------------------------------------------------------------------------
(* Python values *)

None == <<"None">>
Str(c) == <<c>>
EmptyStr == <<>>

Levels == <<"basic", "intermediate", "hard">>
LevelSet == {Levels[j] : j \in 1..Len(Levels)}

option_keys == <<Str("A"), Str("B"), Str("C"), Str("D")>>
OptionKeySet == {option_keys[j] : j \in 1..Len(option_keys)}

required_keys == <<"question", "options", "correct", "explanation">>

Whitespace == {" ", "\t", "\n"}

RECURSIVE lstrip(_)
lstrip(s) ==
    IF s # <<>> /\ Head(s) \in Whitespace THEN lstrip(Tail(s)) ELSE s

RECURSIVE rstrip(_)
rstrip(s) ==
    IF s # <<>> /\ s[Len(s)] \in Whitespace
    THEN rstrip(SubSeq(s, 1, Len(s) - 1)) ELSE s

strip(s) == rstrip(lstrip(s))

UpperChar(c) ==
    CASE c = "a" -> "A" [] c = "b" -> "B" [] c = "c" -> "C"
      [] c = "d" -> "D" [] c = "e" -> "E" [] OTHER -> c

upper(s) == [j \in 1..Len(s) |-> UpperChar(s[j])]

Min(a, b) == IF a < b THEN a ELSE b

\* f"{level}_{i}"
Key(level, i) == <<level, i>>

EmptyDict == [k \in {} |-> None]

\* dict.get(k, default)
DictGet(d, k, default) == IF k \in DOMAIN d THEN d[k] ELSE default

----------------------------------------------------------------------------
(* backend.py: schema validation and quiz generation                       *)
(*                                                                         *)
(* Parsed JSON: data is a function from the top-level keys present to tier *)
(* values; a tier value is [list, items] (list = isinstance(v, list)); a   *)
(* question is [dict, fields] with fields a function from the keys present *)
(* to their values; an options value is [dict, keys].                      *)

Ok == <<"ok">>

\* first element of seq, in order, that is not in dom
FirstMissing(seq, dom) ==
    seq[CHOOSE j \in 1..Len(seq) :
            /\ seq[j] \notin dom
            /\ \A i \in 1..(j - 1) : seq[i] \in dom]

AllIn(seq, dom) == \A j \in 1..Len(seq) : seq[j] \in dom

\* ValidateQuestion without the last check (the ground truth is not validated)
ValidateQuestionSkipsCorrect(level, idx, q) ==
    IF ~q.dict
    THEN <<"not_object", level, idx>>
    ELSE IF ~AllIn(required_keys, DOMAIN q.fields)
    THEN <<"missing_key", FirstMissing(required_keys, DOMAIN q.fields), level, idx>>
    ELSE IF ~q.fields["options"].dict
    THEN <<"options_not_object", level, idx>>
    ELSE IF ~AllIn(option_keys, DOMAIN q.fields["options"].keys)
    THEN <<"missing_option",
           FirstMissing(option_keys, DOMAIN q.fields["options"].keys), level, idx>>
    ELSE Ok

\* body of the inner loop of _validate_quiz_schema for one question
ValidateQuestion(level, idx, q) ==
    IF ~q.dict
    THEN <<"not_object", level, idx>>
    ELSE IF ~AllIn(required_keys, DOMAIN q.fields)
    THEN <<"missing_key", FirstMissing(required_keys, DOMAIN q.fields), level, idx>>
    ELSE IF ~q.fields["options"].dict
    THEN <<"options_not_object", level, idx>>
    ELSE IF ~AllIn(option_keys, DOMAIN q.fields["options"].keys)
    THEN <<"missing_option",
           FirstMissing(option_keys, DOMAIN q.fields["options"].keys), level, idx>>
    ELSE IF q.fields["correct"] \notin OptionKeySet
    THEN <<"invalid_correct", level, idx>>
    ELSE Ok

\* for idx, q in enumerate(data[level]), from 0-based index idx on
RECURSIVE ValidateItems(_, _, _)
ValidateItems(level, items, idx) ==
    IF idx >= Len(items)
    THEN Ok
    ELSE LET r == ValidateQuestion(level, idx, items[idx + 1])
         IN  IF r[1] # "ok" THEN r ELSE ValidateItems(level, items, idx + 1)

\* ValidateLevel that rejects only a tier with more than n questions
ValidateLevelAtMost(data, level, n) ==
    IF level \notin DOMAIN data \/ ~data[level].list
    THEN <<"missing_or_invalid_list", level>>
    ELSE IF Len(data[level].items) > n
    THEN <<"wrong_length", level, n, Len(data[level].items)>>
    ELSE ValidateItems(level, data[level].items, 0)

\* body of the outer loop of _validate_quiz_schema for one level
ValidateLevel(data, level, n) ==
    IF level \notin DOMAIN data \/ ~data[level].list
    THEN <<"missing_or_invalid_list", level>>
    ELSE IF Len(data[level].items) # n
    THEN <<"wrong_length", level, n, Len(data[level].items)>>
    ELSE ValidateItems(level, data[level].items, 0)

\* ValidateFrom that goes on after a violation and reports the last one
RECURSIVE ValidateFromLast(_, _, _)
ValidateFromLast(data, n, j) ==
    IF j > Len(Levels)
    THEN Ok
    ELSE LET rest == ValidateFromLast(data, n, j + 1)
         IN  IF rest[1] # "ok" THEN rest ELSE ValidateLevel(data, Levels[j], n)

\* for level in ["basic", "intermediate", "hard"], from position j on
RECURSIVE ValidateFrom(_, _, _)
ValidateFrom(data, n, j) ==
    IF j > Len(Levels)
    THEN Ok
    ELSE LET r == ValidateLevel(data, Levels[j], n)
         IN  IF r[1] # "ok" THEN r ELSE ValidateFrom(data, n, j + 1)

\* Ok, or the ValueError raised
validate_quiz_schema(data, n_per) == ValidateFrom(data, n_per, 1)

(* A model response: the provider call raised, or the text has no {...}   *)
(* span, or the span is not JSON, or it parses to data.                    *)
ProviderError == [kind |-> "provider_error"]
NoJson == [kind |-> "no_json"]
BadJson == [kind |-> "bad_json"]
Parsed(data) == [kind |-> "json", data |-> data]

Raise(e) == [ok |-> FALSE, error |-> e]
Return(v) == [ok |-> TRUE, value |-> v]

\* the returned quiz, or the exception that leaves the function
generate_quiz_from_text(response, questions_per_level) ==
    IF response.kind = "provider_error" THEN Raise(<<"ProviderError">>)
    ELSE IF response.kind = "no_json" THEN Raise(<<"ValueError", "no_json">>)
    ELSE IF response.kind = "bad_json" THEN Raise(<<"JSONDecodeError">>)
    ELSE LET r == validate_quiz_schema(response.data, questions_per_level)
         IN  IF r[1] = "ok" THEN Return(response.data) ELSE Raise(r)

----------------------------------------------------------------------------
(* backend.py: evaluation *)

\* the keys f"{level}_{i}" of one level, in enumerate order
LevelKeys(quiz, level) ==
    [j \in 1..Len(quiz[level].items) |-> Key(level, j - 1)]

\* the keys in the order of the two nested loops
KeySeq(quiz) ==
    LevelKeys(quiz, Levels[1]) \o LevelKeys(quiz, Levels[2])
        \o LevelKeys(quiz, Levels[3])

QuizKeys(quiz) ==
    IF quiz = None THEN {}
    ELSE LET ks == KeySeq(quiz) IN {ks[j] : j \in 1..Len(ks)}

\* quiz[level][i]
QuestionAt(quiz, k) == quiz[k[1]].items[k[2] + 1].fields

\* the loop body of evaluate_answers, over the remaining keys ks
RECURSIVE EvalFrom(_, _, _, _, _)
EvalFrom(answers, quiz, ks, score, feedback) ==
    IF ks = <<>>
    THEN Return(<<score, feedback>>)
    ELSE LET question == QuestionAt(quiz, Head(ks))
             recorded == DictGet(answers, Head(ks), EmptyStr)
         IN  IF question["correct"] = None \/ recorded = None
             THEN Raise(<<"AttributeError">>)      \* None has no .strip()
             ELSE LET correct == upper(strip(question["correct"]))
                      user_answer == upper(strip(recorded))
                      hit == user_answer = correct
                      result == IF hit THEN <<"Correct">>
                                       ELSE <<"Wrong", correct>>
                      entry == [question |-> question["question"],
                                result |-> result,
                                explanation |-> question["explanation"]]
                  IN  EvalFrom(answers, quiz, Tail(ks),
                               IF hit THEN score + 1 ELSE score,
                               Append(feedback, entry))

\* Return(<<score, feedback>>), or the exception that leaves the function
evaluate_answers(answers, quiz) ==
    EvalFrom(answers, quiz, KeySeq(quiz), 0, <<>>)

----------------------------------------------------------------------------
(* backend.py: PDF text and chunks.  The PDF reader and the text splitter  *)
(* are libraries; an uploaded file stands for what they make of it: the    *)
(* kind of its text and the number of chunks the splitter returns.         *)

NoFile == [kind |-> "none", chunks |-> 0]
BadPdf == [kind |-> "bad", chunks |-> 0]         \* PdfReader raises
EmptyPdf == [kind |-> "empty", chunks |-> 0]     \* no page yields text
BlankPdf == [kind |-> "blank", chunks |-> 0]     \* pages of whitespace
TextPdf(c) == [kind |-> "text", chunks |-> c]

PdfFiles == {BadPdf, EmptyPdf, BlankPdf, TextPdf(MaxChunks)}

extract_text_from_pdf(file) ==
    CASE file.kind = "bad" -> Raise(<<"PdfReadError">>)
      [] file.kind = "empty" -> Return(EmptyStr)
      [] file.kind = "blank" -> Return(<<" ", "\n", " ">>)
      [] OTHER -> Return(<<"t", "e", "x", "t">>)

\* the chunks, each named by its position in the document
chunk_text(file) == [j \in 1..file.chunks |-> j]

----------------------------------------------------------------------------
(* Model responses *)

Text(tag, level, i) == <<tag, level, i>>

\* an options object with the given keys; wording names the option texts
Options(keyset, wording) ==
    [dict |-> TRUE, keys |-> [k \in keyset |-> <<wording, k>>]]

\* a well-formed question object whose ground truth is c
Question(level, i, c, wording) ==
    [dict |-> TRUE,
     fields |-> [question |-> Text("Q", level, i),
                 options |-> Options(OptionKeySet, wording),
                 correct |-> c,
                 explanation |-> Text("E", level, i)]]

\* a JSON array of len well-formed questions
GoodTier(level, len, c, wording) ==
    [list |-> TRUE,
     items |-> [j \in 1..len |-> Question(level, j - 1, c, wording)]]

\* a JSON object with the three tiers, of the given lengths
GoodData(lens, c, wording) ==
    [level \in LevelSet |-> GoodTier(level, lens[level], c, wording)]

\* ground truth and option wording of the well-formed responses
Variants == {<<Str("A"), "w1">>, <<Str("B"), "w1">>, <<Str("A"), "w2">>}

Uniform(m) == [level \in LevelSet |-> m]

PickLetters == {option_keys[j] : j \in 1..Min(MaxPick, Len(option_keys))}

\* the responses the sessions of the model receive
SessionResponses ==
    {ProviderError, NoJson, BadJson}
    \cup {Parsed(GoodData(Uniform(m), v[1], v[2])) : m \in 1..MaxN, v \in Variants}
    \cup {Parsed(GoodData([Uniform(m) EXCEPT !["hard"] = m - 1], Str("A"), "w1")) :
            m \in 1..MaxN}

----------------------------------------------------------------------------
(* app.py: the session *)

\* st.slider("Chunk size", 800, 2400, 1200, 100): the default and the minimum
ChunkSizeDefault == 1200
ChunkSizeMin == 800
ChunkSizes == {ChunkSizeDefault, ChunkSizeMin}

\* st.slider("Chunk overlap", 100, 600, 240, 20): the default and the minimum
ChunkOverlapDefault == 240
ChunkOverlapMin == 100
ChunkOverlaps == {ChunkOverlapDefault, ChunkOverlapMin}

NoKey == <<"", -1>>
NoErr == "none"
Idle == [stage |-> "idle"]

\* st.session_state, with the radio values st.session_state[key]
SS == [quiz_data |-> quiz_data, user_answers |-> user_answers,
       submitted_q |-> submitted_q, results_cache |-> results_cache,
       material_info |-> material_info, radio |-> radio]

\* the setdefault lines, on a session state without keys
Defaults == [quiz_data |-> None, user_answers |-> EmptyDict,
             submitted_q |-> {}, results_cache |-> None,
             material_info |-> EmptyStr, radio |-> EmptyDict]

NoPage == [quiz |-> FALSE, disabled |-> {}]

\* f"Using {len(chunks)} chunks. Sent {min(3, len(chunks))} chunk(s) to the model."
MaterialInfo(chunks) == <<"Using", Len(chunks), "Sent", Min(3, Len(chunks))>>

\* Material that forwards every chunk
MaterialAll(chunks) == chunks

\* " ".join(chunks[:3]) if len(chunks) > 3 else " ".join(chunks): the chunks
\* that are joined
Material(chunks) == IF Len(chunks) > 3 THEN SubSeq(chunks, 1, 3) ELSE chunks

\* OnGenerated that leaves the locks in place
OnGeneratedKeepsLocks(ss, quiz) ==
    [ss EXCEPT !.quiz_data = quiz, !.user_answers = EmptyDict,
               !.results_cache = None]

\* OnGenerated that leaves the cached result in place
OnGeneratedKeepsResult(ss, quiz) ==
    [ss EXCEPT !.quiz_data = quiz, !.user_answers = EmptyDict,
               !.submitted_q = {}]

\* the four assignments after a successful generate_quiz_from_text
OnGenerated(ss, quiz) ==
    [ss EXCEPT !.quiz_data = quiz, !.user_answers = EmptyDict,
               !.submitted_q = {}, !.results_cache = None]

\* OnGenerationFailed that resets the locks as the success branch does
OnGenerationFailedDropsLocks(ss) ==
    [ss EXCEPT !.quiz_data = None, !.submitted_q = {}, !.results_cache = None]

\* the two assignments of the except branch
OnGenerationFailed(ss) ==
    [ss EXCEPT !.quiz_data = None, !.results_cache = None]

\* OnRetry that leaves the Answer Record in place
OnRetryKeepsAnswers(ss) ==
    [ss EXCEPT !.quiz_data = None, !.submitted_q = {}, !.results_cache = None]

\* on_click of "Retry": st.session_state.update({...}) of four keys
OnRetry(ss) ==
    [ss EXCEPT !.quiz_data = None, !.user_answers = EmptyDict,
               !.submitted_q = {}, !.results_cache = None]

\* OnClear whose lambda reads the loop variable when it is called: the key of
\* the last card
OnClearLateBinding(ss, k) ==
    [ss EXCEPT !.radio[KeySeq(ss.quiz_data)[Len(KeySeq(ss.quiz_data))]].value
                  = None]

\* on_click of "Clear Selection": lambda k=key: st.session_state[k] = None
OnClear(ss, k) == [ss EXCEPT !.radio[k].value = None]

\* Lock that replaces the dict instead of adding the key
LockOnly(submitted, key) == {key}

\* st.session_state.submitted_q[key] = True
Lock(submitted, key) == submitted \cup {key}

\* for k in submitted_q.keys(): user_answers[k] = st.session_state.get(k)
SyncAnswers(answers, submitted, widgets) ==
    [k \in (DOMAIN answers) \cup submitted |->
        IF k \in submitted
        THEN IF k \in DOMAIN widgets THEN widgets[k].value ELSE None
        ELSE answers[k]]

(* The identity of the radio of a question: Streamlit derives a widget's   *)
(* id from its key and its parameters (the label, which depends on the     *)
(* index, and the formatted options "A: <text>", ...), not from disabled.  *)
(* The value of a widget is kept from run to run while a widget with the   *)
(* same id is rendered.                                                    *)
RadioId(question) == [k \in OptionKeySet |-> question["options"].keys[k]]

\* st.radio(..., key=key, index=None, ...): the widget and its value
RadioWidget(radios, key, question) ==
    IF key \in DOMAIN radios /\ radios[key].widget = RadioId(question)
    THEN radios[key]
    ELSE [widget |-> RadioId(question), value |-> None]

(* "if generate_btn:" ... up to the quiz section.  err is the exception    *)
(* that ends the run ("none": the run goes on), out what the pipeline did. *)
GeneratePipeline(ss, file, n, response) ==
    IF file.kind = "none"
    THEN [ss |-> ss, err |-> NoErr, out |-> "no_pdf"]
    ELSE LET full_text == extract_text_from_pdf(file)
         IN  IF ~full_text.ok
             THEN \* except: st.exception(e); material = ""
                  [ss |-> ss, err |-> NoErr, out |-> "extract_failed"]
             ELSE IF strip(full_text.value) = EmptyStr
             THEN \* st.error(...), material is not bound: "if material:" raises
                  [ss |-> ss, err |-> "NameError", out |-> "no_text"]
             ELSE LET chunks == chunk_text(file)
                      material == Material(chunks)
                      ss1 == [ss EXCEPT !.material_info = MaterialInfo(chunks)]
                      got == generate_quiz_from_text(response, n)
                  IN  IF material = <<>>
                      THEN [ss |-> ss1, err |-> NoErr, out |-> "no_material"]
                      ELSE IF got.ok
                      THEN [ss |-> OnGenerated(ss1, got.value),
                            err |-> NoErr, out |-> "generated"]
                      ELSE [ss |-> OnGenerationFailed(ss1),
                            err |-> NoErr, out |-> "failed"]

(* "quiz = st.session_state.get('quiz_data'); if quiz:" ... to the end of  *)
(* the script, and the clean-up of the widgets that were not rendered.     *)
(* submit is the key whose Submit button fired (NoKey: none), finish the   *)
(* value of the Finish button.                                             *)
RenderQuiz(ss, submit, finish) ==
    IF ss.quiz_data = None
    THEN [ss |-> [ss EXCEPT !.radio = EmptyDict], page |-> NoPage, err |-> NoErr]
    ELSE LET quiz == ss.quiz_data
             keys == QuizKeys(quiz)
             \* submitted = st.session_state.submitted_q.get(key, False)
             disabled == keys \cap ss.submitted_q
             widgets == [k \in keys |->
                            RadioWidget(ss.radio, k, QuestionAt(quiz, k))]
             locked == IF submit = NoKey THEN ss.submitted_q
                                         ELSE Lock(ss.submitted_q, submit)
             answers == SyncAnswers(ss.user_answers, locked, widgets)
             ss1 == [ss EXCEPT !.radio = widgets, !.submitted_q = locked,
                               !.user_answers = answers]
             rendered == [quiz |-> TRUE, disabled |-> disabled]
             result == evaluate_answers(answers, quiz)
         IN  IF ~finish
             THEN [ss |-> ss1, page |-> rendered, err |-> NoErr]
             ELSE IF result.ok
             THEN [ss |-> [ss1 EXCEPT !.results_cache = result.value],
                   page |-> rendered, err |-> NoErr]
             ELSE [ss |-> ss1, page |-> rendered, err |-> result.error[1]]

\* one run of the script on session state ss
Script(ss, file, n, generate, response, submit, finish) ==
    LET g == IF generate THEN GeneratePipeline(ss, file, n, response)
                         ELSE [ss |-> ss, err |-> NoErr, out |-> "n/a"]
        r == RenderQuiz(g.ss, submit, finish)
    IN  IF g.err # NoErr
        THEN \* the run stops at the exception: nothing below it is rendered,
             \* and the widget state is kept (no clean-up after an exception)
             [ss |-> g.ss, page |-> NoPage, err |-> g.err, out |-> g.out]
        ELSE [ss |-> r.ss, page |-> r.page, err |-> r.err, out |-> g.out]

\* the state after the run r of the interaction name (on question key)
Commit(run, name, key) ==
  \E r \in {run} :
    /\ quiz_data' = r.ss.quiz_data
    /\ user_answers' = r.ss.user_answers
    /\ submitted_q' = r.ss.submitted_q
    /\ results_cache' = r.ss.results_cache
    /\ material_info' = r.ss.material_info
    /\ radio' = r.ss.radio
    /\ page' = r.page
    /\ op' = [name |-> name, key |-> key, err |-> r.err, out |-> r.out]
    /\ runs' = runs + 1
    /\ UNCHANGED call

Rerun(ss) == Script(ss, pdf_file, n_per_level, FALSE, NoJson, NoKey, FALSE)

\* the question cards on the page (one radio each)
Cards == IF page.quiz THEN DOMAIN radio ELSE {}

\* the controls of question k are on the page and enabled
Enabled(k) == k \in Cards /\ k \notin page.disabled

Init ==
    /\ pdf_file = NoFile
    /\ n_per_level = 1
    /\ chunk_size = ChunkSizeDefault
    /\ chunk_overlap = ChunkOverlapDefault
    /\ quiz_data = None
    /\ user_answers = EmptyDict
    /\ submitted_q = {}
    /\ results_cache = None
    /\ material_info = EmptyStr
    /\ radio = EmptyDict
    /\ page = NoPage
    /\ op = [name |-> "open", key |-> NoKey, err |-> NoErr, out |-> "n/a"]
    /\ runs = 0
    /\ call = Idle

\* st.file_uploader: the user uploads, replaces or removes the file
Upload ==
    /\ runs < MaxRuns
    /\ \E f \in (PdfFiles \cup {NoFile}) \ {pdf_file} :
          /\ pdf_file' = f
          /\ Commit(Script(SS, f, n_per_level, FALSE, NoJson, NoKey, FALSE),
                    "upload", NoKey)
    /\ UNCHANGED <<n_per_level, chunk_size, chunk_overlap>>

\* st.slider("Questions per level", ...)
SetQuestionsPerLevel ==
    /\ runs < MaxRuns
    /\ \E n \in (1..MaxN) \ {n_per_level} :
          /\ n_per_level' = n
          /\ Commit(Script(SS, pdf_file, n, FALSE, NoJson, NoKey, FALSE),
                    "slider", NoKey)
    /\ UNCHANGED <<pdf_file, chunk_size, chunk_overlap>>

\* st.slider("Chunk size", 800, 2400, 1200, 100)
SetChunkSize ==
    /\ runs < MaxRuns
    /\ \E size \in ChunkSizes \ {chunk_size} :
          /\ chunk_size' = size
          /\ Commit(Rerun(SS), "chunk_size", NoKey)
    /\ UNCHANGED <<pdf_file, n_per_level, chunk_overlap>>

\* st.slider("Chunk overlap", 100, 600, 240, 20)
SetChunkOverlap ==
    /\ runs < MaxRuns
    /\ \E overlap \in ChunkOverlaps \ {chunk_overlap} :
          /\ chunk_overlap' = overlap
          /\ Commit(Rerun(SS), "chunk_overlap", NoKey)
    /\ UNCHANGED <<pdf_file, n_per_level, chunk_size>>

\* st.button("Generate Quiz")
Generate ==
    /\ runs < MaxRuns
    /\ \E response \in SessionResponses :
          Commit(Script(SS, pdf_file, n_per_level, TRUE, response, NoKey, FALSE),
                 "generate", NoKey)
    /\ UNCHANGED <<pdf_file, n_per_level, chunk_size, chunk_overlap>>

\* st.button("Reset"): delete every key, st.rerun()
Reset ==
    /\ runs < MaxRuns
    /\ Commit(Rerun(Defaults), "reset", NoKey)
    /\ UNCHANGED <<pdf_file, n_per_level, chunk_size, chunk_overlap>>

\* st.radio of question k: the user picks a letter
Select ==
    /\ runs < MaxRuns
    /\ \E k \in Cards, letter \in PickLetters :
          /\ Enabled(k)
          /\ radio[k].value # letter
          /\ Commit(Rerun([SS EXCEPT !.radio[k].value = letter]), "select", k)
    /\ UNCHANGED <<pdf_file, n_per_level, chunk_size, chunk_overlap>>

\* st.button("Submit Answer", key=f"submit_{key}")
Submit ==
    /\ runs < MaxRuns
    /\ \E k \in Cards :
          /\ Enabled(k)
          /\ Commit(Script(SS, pdf_file, n_per_level, FALSE, NoJson, k, FALSE),
                    "submit", k)
    /\ UNCHANGED <<pdf_file, n_per_level, chunk_size, chunk_overlap>>

\* st.button("Clear Selection", on_click=lambda k=key: session_state[k] = None)
Clear ==
    /\ runs < MaxRuns
    /\ \E k \in Cards :
          /\ Enabled(k)
          /\ Commit(Rerun(OnClear(SS, k)), "clear", k)
    /\ UNCHANGED <<pdf_file, n_per_level, chunk_size, chunk_overlap>>

\* st.button("Finish & See Results")
Finish ==
    /\ runs < MaxRuns
    /\ page.quiz
    /\ Commit(Script(SS, pdf_file, n_per_level, FALSE, NoJson, NoKey, TRUE),
              "finish", NoKey)
    /\ UNCHANGED <<pdf_file, n_per_level, chunk_size, chunk_overlap>>

\* st.button("Retry (keep PDF & settings)", on_click=session_state.update(...))
Retry ==
    /\ runs < MaxRuns
    /\ page.quiz
    /\ Commit(Rerun(OnRetry(SS)), "retry", NoKey)
    /\ UNCHANGED <<pdf_file, n_per_level, chunk_size, chunk_overlap>>

\* st.button("Start Over (reset all)", on_click=pop every key)
StartOver ==
    /\ runs < MaxRuns
    /\ page.quiz
    /\ Commit(Rerun(Defaults), "start_over", NoKey)
    /\ UNCHANGED <<pdf_file, n_per_level, chunk_size, chunk_overlap>>

Next ==
    \/ Upload
    \/ SetQuestionsPerLevel
    \/ SetChunkSize
    \/ SetChunkOverlap
    \/ Generate
    \/ Reset
    \/ Select
    \/ Submit
    \/ Clear
    \/ Finish
    \/ Retry
    \/ StartOver

Spec == Init /\ [][Next]_vars

----------------------------------------------------------------------------
(* The session from the point where a generate request has just failed on  *)
(* a session that had a quiz of MaxN questions per tier with one question  *)
(* locked (Init, the slider to MaxN, Upload, Generate, possibly Select,    *)
(* Submit, then Generate with a failing response): the lock and its Answer *)
(* Record entry are still there.  StaleRuns more runs follow.              *)

StaleKeys == QuizKeys(GoodData(Uniform(MaxN), Str("A"), "w1"))

InitStale ==
    /\ pdf_file = TextPdf(MaxChunks)
    /\ n_per_level = MaxN
    /\ chunk_size = ChunkSizeDefault
    /\ chunk_overlap = ChunkOverlapDefault
    /\ quiz_data = None
    /\ \E k \in StaleKeys, v \in PickLetters \cup {None} :
          /\ submitted_q = {k}
          /\ user_answers = [x \in {k} |-> v]
    /\ results_cache = None
    /\ material_info = MaterialInfo(chunk_text(TextPdf(MaxChunks)))
    /\ radio = EmptyDict
    /\ page = NoPage
    /\ op = [name |-> "generate", key |-> NoKey, err |-> NoErr, out |-> "failed"]
    /\ runs = MaxRuns - StaleRuns
    /\ call = Idle

SpecStale == InitStale /\ [][Next]_vars

----------------------------------------------------------------------------
(* generate_quiz_from_text called on its own, over responses that are      *)
(* well-formed except in at most one place.                                *)

NotAnObject == [dict |-> FALSE, fields |-> EmptyDict]
NotAList == [list |-> FALSE, items |-> <<>>]

Without(f, k) == [x \in (DOMAIN f) \ {k} |-> f[x]]

\* question objects that differ from the well-formed q in one place
Variations(q) ==
    {NotAnObject}
    \cup {[q EXCEPT !.fields = Without(q.fields, required_keys[j])] :
            j \in 1..Len(required_keys)}
    \cup {[q EXCEPT !.fields["options"] = [dict |-> FALSE, keys |-> EmptyDict]]}
    \cup {[q EXCEPT !.fields["options"].keys = Without(@, option_keys[j])] :
            j \in 1..Len(option_keys)}
    \cup {[q EXCEPT !.fields["correct"] = c] : c \in {Str("E"), Str("a"), EmptyStr, None}}
    \cup {[q EXCEPT !.fields["options"] = Options(OptionKeySet \cup {Str("E")}, "w1")]}
    \cup {[fields |-> [x \in (DOMAIN q.fields) \cup {"hint"} |->
                          IF x = "hint" THEN Text("H", "", 0) ELSE q.fields[x]],
           dict |-> TRUE]}

Lengths == 0..(MaxN + 1)

\* well-formed data whose tiers have one length, or one tier another length
WellFormed ==
    {GoodData([Uniform(m) EXCEPT ![level] = l], Str("A"), "w1") :
        m \in Lengths, l \in Lengths, level \in LevelSet}

\* d with one tier missing or not a list, or with one question varied
OneOff(d) ==
    {Without(d, level) : level \in LevelSet}
    \cup {[d EXCEPT ![level] = NotAList] : level \in LevelSet}
    \cup UNION {UNION {{[d EXCEPT ![level].items[j] = q] :
                          q \in Variations(d[level].items[j])} :
                       j \in 1..Len(d[level].items)} :
                  level \in LevelSet}

GenResponses ==
    {ProviderError, NoJson, BadJson}
    \cup {Parsed(d) : d \in WellFormed}
    \cup UNION {{Parsed(e) : e \in OneOff(d)} : d \in WellFormed}

InitGen ==
    /\ pdf_file = NoFile
    /\ n_per_level = 1
    /\ chunk_size = ChunkSizeDefault
    /\ chunk_overlap = ChunkOverlapDefault
    /\ quiz_data = None
    /\ user_answers = EmptyDict
    /\ submitted_q = {}
    /\ results_cache = None
    /\ material_info = EmptyStr
    /\ radio = EmptyDict
    /\ page = NoPage
    /\ op = [name |-> "open", key |-> NoKey, err |-> NoErr, out |-> "n/a"]
    /\ runs = 0
    /\ call \in {[stage |-> "args", response |-> r, n |-> n] :
                    r \in GenResponses, n \in 1..MaxN}

CallGenerate ==
    /\ call.stage = "args"
    /\ call' = [stage |-> "done", response |-> call.response, n |-> call.n,
                ret |-> generate_quiz_from_text(call.response, call.n)]
    /\ UNCHANGED <<pdf_file, n_per_level, chunk_size, chunk_overlap,
                   quiz_data, user_answers, submitted_q, results_cache,
                   material_info, radio, page, op, runs>>

NextGen == CallGenerate

SpecGen == InitGen /\ [][NextGen]_vars

----------------------------------------------------------------------------
(* _extract_json_block called on its own, over every text of at most       *)
(* MaxLen characters: braces, a letter (prose or content) and a blank.     *)

\* the session of a process in which no page was opened
NoSession ==
    /\ pdf_file = NoFile
    /\ n_per_level = 1
    /\ chunk_size = ChunkSizeDefault
    /\ chunk_overlap = ChunkOverlapDefault
    /\ quiz_data = None
    /\ user_answers = EmptyDict
    /\ submitted_q = {}
    /\ results_cache = None
    /\ material_info = EmptyStr
    /\ radio = EmptyDict
    /\ page = NoPage
    /\ op = [name |-> "open", key |-> NoKey, err |-> NoErr, out |-> "n/a"]
    /\ runs = 0

session == <<pdf_file, n_per_level, chunk_size, chunk_overlap, quiz_data,
             user_answers, submitted_q, results_cache, material_info, radio,
             page, op, runs>>

TextChars == {"{", "}", "x", " "}
Texts == UNION {[1..m -> TextChars] : m \in 0..MaxLen}

Positions(s, c) == {i \in 1..Len(s) : s[i] = c}
Least(S) == CHOOSE i \in S : \A j \in S : i <= j
Greatest(S) == CHOOSE i \in S : \A j \in S : j <= i

\* str.find(c): the 0-based index of the first c, or -1
find(s, c) == IF Positions(s, c) = {} THEN -1 ELSE Least(Positions(s, c)) - 1

\* rfind that returns the first occurrence, as find does
rfindLeftmost(s, c) ==
    IF Positions(s, c) = {} THEN -1 ELSE Least(Positions(s, c)) - 1

\* str.rfind(c): the 0-based index of the last c, or -1
rfind(s, c) ==
    IF Positions(s, c) = {} THEN -1 ELSE Greatest(Positions(s, c)) - 1

\* s[start : stop], 0-based, stop excluded
Slice(s, start, stop) == SubSeq(s, start + 1, stop)

(* re.search(r"\{[\s\S]*\}\s*$", s): the match starts at the leftmost "{"   *)
(* from which the pattern matches, i.e. one with a later "}" after which   *)
(* only whitespace follows up to the end; [\s\S]* and \s* are greedy, so   *)
(* the match runs to the end of s.                                         *)
MatchStarts(s) ==
    {i \in Positions(s, "{") :
        \E j \in Positions(s, "}") :
            /\ i < j
            /\ \A m \in (j + 1)..Len(s) : s[m] \in Whitespace}

re_search(s) ==
    IF MatchStarts(s) = {}
    THEN [found |-> FALSE, group |-> <<>>]
    ELSE [found |-> TRUE, group |-> SubSeq(s, Least(MatchStarts(s)), Len(s))]

\* the extracted span, or the ValueError
extract_json_block(text) ==
    LET match == re_search(strip(text))
        start == find(text, "{")
        end == rfind(text, "}")
    IN  IF ~match.found
        THEN IF start = -1 \/ end = -1 \/ end <= start
             THEN Raise(<<"ValueError", "No JSON object found">>)
             ELSE Return(Slice(text, start, end + 1))
        ELSE Return(match.group)

InitExtract ==
    /\ NoSession
    /\ call \in {[stage |-> "args", text |-> t] : t \in Texts}

CallExtract ==
    /\ call.stage = "args"
    /\ call' = [stage |-> "done", text |-> call.text,
                ret |-> extract_json_block(call.text)]
    /\ UNCHANGED session

NextExtract == CallExtract

SpecExtract == InitExtract /\ [][NextExtract]_vars

----------------------------------------------------------------------------
(* The material of a generate request (app.py:119-121) computed on its     *)
(* own, over every list of at most MaxChunks chunks.                       *)

\* sep.join(list) on strings
RECURSIVE join(_, _)
join(sep, list) ==
    IF list = <<>> THEN EmptyStr
    ELSE IF Len(list) = 1 THEN list[1]
    ELSE list[1] \o sep \o join(sep, Tail(list))

\* chunks the splitter returns: non-empty pieces of text
ChunkTexts == {<<"a">>, <<"b">>, <<"c", "d">>}
ChunkLists == UNION {[1..m -> ChunkTexts] : m \in 0..MaxChunks}

InitMaterial ==
    /\ NoSession
    /\ call \in {[stage |-> "args", chunks |-> cs] : cs \in ChunkLists}

BuildMaterial ==
    /\ call.stage = "args"
    /\ call' = [stage |-> "done", chunks |-> call.chunks,
                material |-> join(Str(" "), Material(call.chunks)),
                info |-> MaterialInfo(call.chunks)]
    /\ UNCHANGED session

NextMaterial == BuildMaterial

SpecMaterial == InitMaterial /\ [][NextMaterial]_vars

----------------------------------------------------------------------------
(* Properties *)

PerQuestionOrFinish == {"select", "clear", "submit", "finish"}

Value(radios, k) == IF k \in DOMAIN radios THEN radios[k].value ELSE None

(* C1: once a question is locked, a clear-selection action on it changes   *)
(* neither its pending choice, nor its lock, nor its Answer Record entry.  *)
C1_ClearOnLockedIsNoOp ==
    [][(op'.name = "clear" /\ op'.key \in submitted_q) =>
          /\ Value(radio', op'.key) = Value(radio, op'.key)
          /\ op'.key \in submitted_q'
          /\ DictGet(user_answers', op'.key, None)
                = DictGet(user_answers, op'.key, None)]_vars

(* C2: the Answer Record letter of a locked question does not change under *)
(* a later radio change, clear selection, submit or finish.                *)
C2_LockedAnswerIsFinal ==
    [][op'.name \in PerQuestionOrFinish =>
          \A k \in submitted_q :
              DictGet(user_answers', k, None) = DictGet(user_answers, k, None)]_vars

(* C3: Finish always completes without an exception and stores a result in *)
(* which the questions without a recorded letter do not score.             *)
C3_FinishNeverRaises ==
    op.name = "finish" =>
        /\ op.err = NoErr
        /\ results_cache # None
        /\ results_cache[1] <=
              Cardinality({k \in DOMAIN user_answers : user_answers[k] # None})

(* C4: a generate request on a PDF whose extracted text is empty or        *)
(* whitespace ends without an unhandled exception, without calling the     *)
(* model, without a quiz generated, and with the session state unchanged.  *)
C4_NoTextIsHandled ==
    [][(op'.name = "generate" /\ pdf_file.kind \in {"empty", "blank"}) =>
          /\ op'.err = NoErr
          /\ op'.out \notin {"generated", "failed"}
          /\ quiz_data' = quiz_data
          /\ user_answers' = user_answers
          /\ submitted_q' = submitted_q
          /\ results_cache' = results_cache
          /\ material_info' = material_info]_vars

(* C5 as stated: a failed generation only clears the quiz; the Answer      *)
(* Record, the locks, the cached result and the banner text are unchanged. *)
C5_FailureOnlyClearsQuiz ==
    [][(op'.name = "generate" /\ op'.out = "failed") =>
          /\ op'.err = NoErr
          /\ quiz_data' = None
          /\ user_answers' = user_answers
          /\ submitted_q' = submitted_q
          /\ results_cache' = results_cache
          /\ material_info' = material_info]_vars

(* C5 amended: a failed generation is caught; it clears the quiz and the   *)
(* cached result and sets the banner text to this request's chunk counts;  *)
(* the Answer Record and the locks are unchanged.                          *)
C5_FailureClearsQuizAndResult ==
    [][(op'.name = "generate" /\ op'.out = "failed") =>
          /\ op'.err = NoErr
          /\ quiz_data' = None
          /\ results_cache' = None
          /\ material_info' = MaterialInfo(chunk_text(pdf_file))
          /\ user_answers' = user_answers
          /\ submitted_q' = submitted_q]_vars

\* a failed generation in a session that holds locks and recorded answers
C5_Witness ==
    /\ op.name = "generate"
    /\ op.out = "failed"
    /\ submitted_q # {}
    /\ \E k \in DOMAIN user_answers : user_answers[k] # None

Returned == call.stage = "done" /\ call.ret.ok

(* C6: generate_quiz_from_text returns only data in which each of the      *)
(* three tiers is present, is a list and has exactly n questions.          *)
C6_ExactlyNPerTier ==
    Returned =>
        \A level \in LevelSet :
            /\ level \in DOMAIN call.ret.value
            /\ call.ret.value[level].list
            /\ Len(call.ret.value[level].items) = call.n

\* a quiz with more than one question per tier is returned
C6_Witness ==
    /\ Returned
    /\ call.n > 1
    /\ \A level \in LevelSet : Len(call.ret.value[level].items) = call.n

ReturnedQuestions ==
    UNION {{call.ret.value[level].items[j] :
                j \in 1..Len(call.ret.value[level].items)} :
             level \in DOMAIN call.ret.value}

(* C7 as stated: every returned question has the four fields, options with *)
(* exactly the keys A, B, C, D, and a correct value among A, B, C, D.      *)
C7_ExactlyFourOptions ==
    Returned =>
        \A q \in ReturnedQuestions :
            /\ q.dict
            /\ AllIn(required_keys, DOMAIN q.fields)
            /\ DOMAIN q.fields["options"].keys = OptionKeySet
            /\ q.fields["correct"] \in OptionKeySet

(* C7 amended: every returned question has the four fields, options that   *)
(* contain the keys A, B, C, D (other keys may be present as well), and a  *)
(* correct value among A, B, C, D, which is therefore a key of options.    *)
C7_AtLeastFourOptions ==
    Returned =>
        \A q \in ReturnedQuestions :
            /\ q.dict
            /\ AllIn(required_keys, DOMAIN q.fields)
            /\ OptionKeySet \subseteq DOMAIN q.fields["options"].keys
            /\ q.fields["correct"] \in OptionKeySet
            /\ q.fields["correct"] \in DOMAIN q.fields["options"].keys

\* a quiz is returned that has a question with a fifth option key
C7_Witness ==
    /\ Returned
    /\ \E q \in ReturnedQuestions :
          DOMAIN q.fields["options"].keys # OptionKeySet

Normalized(s) == upper(strip(s))

(* C8: evaluate_answers returns one feedback entry per question, in the    *)
(* order basic, intermediate, hard and by index, and a score equal to the  *)
(* number of questions whose recorded letter matches the correct letter    *)
(* after trimming and uppercasing; a non-matching entry names the correct  *)
(* letter.                                                                 *)
C8_EvaluateScoresEveryQuestion ==
    op.name = "finish" =>
        /\ results_cache # None
        /\ LET score == results_cache[1]
               feedback == results_cache[2]
               ks == KeySeq(quiz_data)
               Hit(j) == Normalized(DictGet(user_answers, ks[j], EmptyStr))
                            = Normalized(QuestionAt(quiz_data, ks[j])["correct"])
           IN  /\ Len(feedback) = Len(ks)
               /\ score = Cardinality({j \in 1..Len(ks) : Hit(j)})
               /\ \A j \in 1..Len(ks) :
                     /\ feedback[j].question
                           = QuestionAt(quiz_data, ks[j])["question"]
                     /\ feedback[j].result =
                           IF Hit(j)
                           THEN <<"Correct">>
                           ELSE <<"Wrong",
                                  Normalized(QuestionAt(quiz_data, ks[j])["correct"])>>

DiscardsQuiz ==
    \/ op'.name \in {"retry", "start_over", "reset"}
    \/ op'.name = "generate" /\ op'.out = "generated"

(* C9: a locked question stays locked under every select, clear selection, *)
(* submit and Finish; a lock disappears only in a run that discards the    *)
(* quiz (retry, start over, reset, or a newly generated quiz).             *)
C9_LockIsOneWay ==
    [][/\ (\E k \in submitted_q : k \notin submitted_q') => DiscardsQuiz
       /\ op'.name \in PerQuestionOrFinish => submitted_q \subseteq submitted_q']_vars

\* a clear-selection action was handled on a question that is (still) locked
\* while another question is locked as well
C9_Witness ==
    /\ op.name \in {"clear", "submit"}
    /\ op.key \in submitted_q
    /\ Cardinality(submitted_q) > 1

(* C10: right after a successful generation the Answer Record is empty,    *)
(* nothing is locked, no result is cached, and no question of the new quiz *)
(* has a pending choice.                                                   *)
C10_FreshAfterGeneration ==
    (op.name = "generate" /\ op.out = "generated") =>
        /\ quiz_data # None
        /\ DOMAIN user_answers = {}
        /\ submitted_q = {}
        /\ results_cache = None
        /\ \A k \in QuizKeys(quiz_data) : Value(radio, k) = None

(* C11: from every state in which Retry is offered, the run of a Retry     *)
(* click ends with no quiz, an empty Answer Record, no locks and no cached *)
(* result, and with the uploaded file, the chunk size, the chunk overlap   *)
(* and the questions per tier as they were.                                *)
C11_RetryKeepsFileAndSettings ==
    [][op'.name = "retry" =>
          /\ quiz_data' = None
          /\ DOMAIN user_answers' = {}
          /\ submitted_q' = {}
          /\ results_cache' = None
          /\ pdf_file' = pdf_file
          /\ chunk_size' = chunk_size
          /\ chunk_overlap' = chunk_overlap
          /\ n_per_level' = n_per_level]_vars

\* Retry was handled in a session with an uploaded file and a setting that
\* is not the default of its slider
C11_Witness ==
    /\ op.name = "retry"
    /\ pdf_file # NoFile
    /\ \/ chunk_size # ChunkSizeDefault
       \/ chunk_overlap # ChunkOverlapDefault
       \/ n_per_level # 1

(* C12: after the run of a Start Over click or of a sidebar Reset click the *)
(* session is that of a fresh one: no uploaded file, no quiz, an empty     *)
(* Answer Record, no locks, no cached result, no pending choice and an     *)
(* empty info banner.                                                      *)
C12_StartOverIsFresh ==
    op.name \in {"start_over", "reset"} =>
        /\ pdf_file = NoFile
        /\ quiz_data = None
        /\ DOMAIN user_answers = {}
        /\ submitted_q = {}
        /\ results_cache = None
        /\ DOMAIN radio = {}
        /\ material_info = EmptyStr

FirstOpen(text) == Least(Positions(text, "{"))
LastClose(text) == Greatest(Positions(text, "}"))

\* some "{" of the text is followed later by a "}"
HasSpan(text) ==
    \E i \in Positions(text, "{"), j \in Positions(text, "}") : i < j

Braces == {"{", "}"}

(* C13: _extract_json_block raises exactly when the text has no "{" that   *)
(* is followed later by a "}", and otherwise returns the text from its     *)
(* first "{" to its last "}", whichever of the two strategies is taken; in *)
(* particular, for brace-free prose, then a {...} object, then brace-free  *)
(* prose, it returns exactly the object.                                   *)
C13_ExtractFirstToLast ==
    call.stage = "done" =>
        LET text == call.text
            ret == call.ret
        IN  /\ ret.ok <=> HasSpan(text)
            /\ ret.ok =>
                  ret.value = SubSeq(text, FirstOpen(text), LastClose(text))
            /\ \A a, b \in 1..Len(text) :
                  (/\ a < b
                   /\ text[a] = "{"
                   /\ text[b] = "}"
                   /\ \A m \in (1..(a - 1)) \cup ((b + 1)..Len(text)) :
                          text[m] \notin Braces)
                  => (ret.ok /\ ret.value = SubSeq(text, a, b))

\* extraction returned on a text with prose before the first "{" and after
\* the last "}" (the regex does not match) and content between them
C13_Witness ==
    /\ call.stage = "done"
    /\ call.ret.ok
    /\ call.text[1] = "x"
    /\ call.text[Len(call.text)] = "x"
    /\ Len(call.ret.value) > 2
    /\ ~re_search(strip(call.text)).found

\* q is an object with the four fields, options A-D and a valid ground truth
QuestionOk(q) ==
    /\ q.dict
    /\ \A j \in 1..Len(required_keys) : required_keys[j] \in DOMAIN q.fields
    /\ q.fields["options"].dict
    /\ OptionKeySet \subseteq DOMAIN q.fields["options"].keys
    /\ q.fields["correct"] \in OptionKeySet

\* the tier is present, a list of n items, each of them well-formed
TierOk(data, level, n) ==
    /\ level \in DOMAIN data
    /\ data[level].list
    /\ Len(data[level].items) = n
    /\ \A j \in 1..n : QuestionOk(data[level].items[j])

\* the tier, the index and the field that the message of a ValueError names
PerQuestionErrors ==
    {"not_object", "missing_key", "options_not_object", "missing_option",
     "invalid_correct"}
ErrLevel(e) == IF e[1] \in {"missing_key", "missing_option"} THEN e[3] ELSE e[2]
ErrIndex(e) == IF e[1] \in {"missing_key", "missing_option"} THEN e[4] ELSE e[3]
ErrField(e) ==
    CASE e[1] = "missing_key" -> e[2]
      [] e[1] \in {"options_not_object", "missing_option"} -> "options"
      [] e[1] = "invalid_correct" -> "correct"
      [] OTHER -> ""

\* the message e is about something that is wrong with q
Faulty(q, e) ==
    IF ~q.dict THEN e[1] = "not_object"
    ELSE \/ ErrField(e) \in {required_keys[j] : j \in 1..Len(required_keys)}
                              \ DOMAIN q.fields
         \/ /\ ErrField(e) = "options"
            /\ "options" \in DOMAIN q.fields
            /\ IF ~q.fields["options"].dict
               THEN e[1] = "options_not_object"
               ELSE /\ e[1] = "missing_option"
                    /\ e[2] \in OptionKeySet \ DOMAIN q.fields["options"].keys
         \/ /\ ErrField(e) = "correct"
            /\ "correct" \in DOMAIN q.fields
            /\ q.fields["correct"] \notin OptionKeySet

(* C14: on a parsed response, validation accepts exactly when every tier   *)
(* is a list of n well-formed questions; otherwise the error names the     *)
(* first violating tier in the order basic, intermediate, hard: a tier of  *)
(* the wrong length is reported as such (with n and the length found), and *)
(* a per-question violation is reported with the index of the first bad    *)
(* question of that tier and a field that is wrong in it.                  *)
C14_ErrorNamesOffendingPlace ==
    (call.stage = "done" /\ call.response.kind = "json") =>
        LET data == call.response.data
            n == call.n
            ret == call.ret
            bad == {j \in 1..Len(Levels) : ~TierOk(data, Levels[j], n)}
        IN  IF bad = {}
            THEN ret.ok
            ELSE LET level == Levels[Least(bad)]
                 IN  /\ ~ret.ok
                     /\ ErrLevel(ret.error) = level
                     /\ IF level \notin DOMAIN data
                        THEN ret.error[1] = "missing_or_invalid_list"
                        ELSE IF ~data[level].list
                        THEN ret.error[1] = "missing_or_invalid_list"
                        ELSE IF Len(data[level].items) # n
                        THEN ret.error = <<"wrong_length", level, n,
                                           Len(data[level].items)>>
                        ELSE LET items == data[level].items
                                 idx == Least({j \in 1..n : ~QuestionOk(items[j])})
                             IN  /\ ret.error[1] \in PerQuestionErrors
                                 /\ ErrIndex(ret.error) = idx - 1
                                 /\ Faulty(items[idx], ret.error)

\* validation rejected a response in which only the hard tier has a length
\* other than n (one question short), with an error naming that tier
C14_Witness ==
    /\ call.stage = "done"
    /\ call.response.kind = "json"
    /\ call.n > 1
    /\ \A level \in {"basic", "intermediate"} :
          TierOk(call.response.data, level, call.n)
    /\ TierOk(call.response.data, "hard", call.n - 1)
    /\ ~call.ret.ok
    /\ ErrLevel(call.ret.error) = "hard"

\* the first k chunks of cs with a blank between neighbours, k <= 3
FirstJoined(cs, k) ==
    CASE k = 0 -> <<>>
      [] k = 1 -> cs[1]
      [] k = 2 -> cs[1] \o <<" ">> \o cs[2]
      [] k = 3 -> cs[1] \o <<" ">> \o cs[2] \o <<" ">> \o cs[3]

(* C15: the material is the first min(3, number of chunks) chunks, in      *)
(* their order and separated by blanks, and nothing of a later chunk; the  *)
(* info banner reports the number of chunks and that same number sent.     *)
C15_MaterialIsFirstThree ==
    call.stage = "done" =>
        LET cs == call.chunks
            k == IF Len(cs) <= 3 THEN Len(cs) ELSE 3
        IN  /\ call.material = FirstJoined(cs, k)
            /\ call.info = <<"Using", Len(cs), "Sent", k>>
            /\ k > 0 =>
                  Cardinality(Positions(call.material, " ")) + 1 = call.info[4]

\* material was built from more than three chunks, the fourth of which is
\* unlike the first three
C15_Witness ==
    /\ call.stage = "done"
    /\ Len(call.chunks) > 3
    /\ \A j \in 1..3 : call.chunks[j] # call.chunks[4]
    /\ call.material # <<>>

(* C16: at the end of every run, a cached result exists only if a quiz    *)
(* exists, its feedback has exactly one entry per question of the current  *)
(* quiz, in the order of the questions, and                                *)
(* 0 <= score <= number of locked questions <= number of questions.        *)
C16_ResultBelongsToQuiz ==
    results_cache # None =>
        /\ quiz_data # None
        /\ LET score == results_cache[1]
               feedback == results_cache[2]
               ks == KeySeq(quiz_data)
           IN  /\ Len(feedback) = Len(ks)
               /\ \A j \in 1..Len(ks) :
                     feedback[j].question = QuestionAt(quiz_data, ks[j])["question"]
               /\ 0 <= score
               /\ score <= Cardinality(submitted_q)
               /\ Cardinality(submitted_q) <= Len(ks)

\* a result with a positive score is cached for a quiz in which some but not
\* all questions are locked
C16_Witness ==
    /\ results_cache # None
    /\ results_cache[1] > 0
    /\ Cardinality(submitted_q) < Len(KeySeq(quiz_data))

(* C17: whenever a quiz is present, every locked key and every key of the *)
(* Answer Record is a question of the current quiz and the Answer Record   *)
(* has entries for locked keys only, so that the "Answered" count is at    *)
(* most the (positive) number of questions and the progress fraction is in *)
(* [0, 1]; also when the quiz was generated with a smaller n after a       *)
(* failed generation that left locks of a larger quiz behind.              *)
C17_KeysBelongToQuiz ==
    quiz_data # None =>
        /\ submitted_q \subseteq QuizKeys(quiz_data)
        /\ DOMAIN user_answers \subseteq submitted_q
        /\ Len(KeySeq(quiz_data)) > 0
        /\ Cardinality(submitted_q) <= Len(KeySeq(quiz_data))

\* the run right after the slider was lowered: a quiz with fewer than MaxN
\* questions per tier was generated in a session that held a stale lock
C17_Witness ==
    /\ runs = MaxRuns - StaleRuns + 2
    /\ op.name = "generate"
    /\ op.out = "generated"
    /\ quiz_data # None
    /\ Len(quiz_data["basic"].items) < MaxN

PerQuestion == {"select", "clear", "submit"}

\* what the session holds about question k: lock, pending choice, recorded
\* letter (absent: "absent")
Lockedness(submitted, k) == k \in submitted
Recorded(answers, k) ==
    IF k \in DOMAIN answers THEN <<"entry", answers[k]>> ELSE <<"absent">>

(* C18: a select, clear or submit on one question changes neither the      *)
(* lock, nor the pending choice, nor the Answer Record entry of any other  *)
(* question, and changes neither the quiz nor the cached result.           *)
C18_PerQuestionFrame ==
    [][op'.name \in PerQuestion =>
          /\ quiz_data' = quiz_data
          /\ results_cache' = results_cache
          /\ \A k \in ((DOMAIN radio) \cup (DOMAIN radio') \cup submitted_q
                         \cup submitted_q' \cup (DOMAIN user_answers)
                         \cup (DOMAIN user_answers')) \ {op'.key} :
                /\ Lockedness(submitted_q', k) = Lockedness(submitted_q, k)
                /\ Value(radio', k) = Value(radio, k)
                /\ (k \in DOMAIN radio') = (k \in DOMAIN radio)
                /\ Recorded(user_answers', k) = Recorded(user_answers, k)]_vars

\* a per-question action was handled on one question while another one is
\* locked with a recorded letter
C18_Witness ==
    /\ op.name \in PerQuestion
    /\ \E k \in (DOMAIN radio) \ {op.key} :
          /\ k \in submitted_q
          /\ DictGet(user_answers, k, None) # None

====
